---- MODULE Spec2Model ----
(***************************************************************************)
(* Model of algebraic.go (parallel variant): generateAlgebraicNumbers,      *)
(* its polynomial enumerator (producer goroutine), worker pool, WaitGroup   *)
(* coordinator and collector loop.                                          *)
(*                                                                          *)
(* Coefficients are complex128 values built with complex(float64(n), 0)     *)
(* from small ints; they are modelled by the integer n (the conversion is   *)
(* exact for these magnitudes and the imaginary part is always 0).          *)
(* A coefficient slice is a TLA+ sequence: coeffs[j] of the code is         *)
(* coeffs[j+1] here.                                                        *)
(***************************************************************************)
EXTENDS Integers, Sequences, FiniteSets, TLC

(* ---------------------------- bounds ---------------------------------- *)
\* Largest --max-height explored by Spec (all goroutines interleaved).
MaxHeight == 4
\* Largest --max-height explored by EnumSpec (one worker).
EnumMaxHeight == 6
\* Largest runtime.NumCPU() explored.
MaxWorkers == 2
\* Capacity of workCh and of resultCh in the model (1000 in the code).
WorkCap == 2
ResultCap == 2
\* How many findRoots calls of one run may hit the iteration cap.
MaxShort == 1
\* Largest height whose polynomials are given to the stepped root finder.
NewtonMaxHeight == 5
\* Largest magnitude of a value a Newton stage converges to in the model.
MaxRootMag == 1
\* Pixel width and height of the rendered image, and the longest point list.
ImgW == 6
ImgH == 1
MaxPoints == 2
\* Largest leading-coefficient magnitude and degree of the points whose
\* colour is looked up.
MaxLead == 12
MaxDegree == 3
\* largest -max-height and -fps of a video run
VideoMaxHeight == 10
MaxFrameRate == 5

Workers == 1..MaxWorkers

(* ------------------------- bit arithmetic ------------------------------ *)
\* 1 << n
Shl1(n) == 2^n

\* (i >> j) & 1
Bit(i, j) == (i \div Shl1(j)) % 2

(* ------------------------- the enumerator ------------------------------ *)
\* for i := (1 << (h - 1)) - 1; ...
FirstPattern(h) == Shl1(h - 1) - 1

\* ...; i -= 2
\* (fault variant: i -= 4)
NextPatternSkips(i) == i - 4
NextPattern(i) == i - 2

\* The decode loop: for j := h - 2; j >= 0; j-- { ... }
RECURSIVE DecodeLoop(_, _, _, _, _)
DecodeLoop(h, i, j, coeffMags, k) ==
    IF j < 0 THEN [coeffMags |-> coeffMags, k |-> k]
    ELSE IF Bit(i, j) = 1
         THEN DecodeLoop(h, i, j - 1, [coeffMags EXCEPT ![k] = @ + 1], k)
         ELSE DecodeLoop(h, i, j - 1,
                         IF k + 1 < h THEN [coeffMags EXCEPT ![k + 1] = 0]
                                      ELSE coeffMags,
                         k + 1)

\* coeffMags := make([]int, h); k := 0; decode loop
Decode(h, i) == DecodeLoop(h, i, h - 2, [x \in 0..(h - 1) |-> 0], 0)

\* if k == 0 { continue }
\* (fault variant: the test left out)
InvalidPolynomialNever(k) == FALSE
InvalidPolynomial(k) == k = 0

\* nonZero: number of j in 0..order with coeffMags[j] != 0
NonZero(coeffMags, order) ==
    Cardinality({j \in 0..order : coeffMags[j] # 0})

\* signs < (1 << (nonZero - 1))
\* (fault variant: 1 << nonZero)
SignCountDoubled(nonZero) == Shl1(nonZero)
SignCount(nonZero) == Shl1(nonZero - 1)

\* The coefficient-building loop: for j := 0; j <= order; j++ { ... }
RECURSIVE BuildLoop(_, _, _, _, _, _)
BuildLoop(coeffMags, order, signs, j, signBit, coeffs) ==
    IF j > order THEN coeffs
    ELSE IF coeffMags[j] = 0 \/ j = order
         THEN BuildLoop(coeffMags, order, signs, j + 1, signBit,
                        Append(coeffs, coeffMags[j]))
         ELSE LET sign == IF Bit(signs, signBit) = 1 THEN -1 ELSE 1
              IN  BuildLoop(coeffMags, order, signs, j + 1, signBit + 1,
                            Append(coeffs, sign * coeffMags[j]))

\* (fault variant: the sign vector ignored)
BuildCoeffsUnsigned(coeffMags, order, signs) ==
    [j \in 1..(order + 1) |-> coeffMags[j - 1]]
BuildCoeffs(coeffMags, order, signs) ==
    BuildLoop(coeffMags, order, signs, 0, 0, <<>>)

\* leadingCoeff: coeffMags[order]
\* (fault variant: coeffMags[0])
LeadingTagConstantTerm(coeffMags, order) == coeffMags[0]
LeadingTag(coeffMags, order) == coeffMags[order]

\* PolyWork{coeffs, h, order, leadingCoeff}
PolyWork(h, i, signs) ==
    LET d     == Decode(h, i)
        order == d.k
    IN  [coeffs       |-> BuildCoeffs(d.coeffMags, order, signs),
         h            |-> h,
         order        |-> order,
         leadingCoeff |-> LeadingTag(d.coeffMags, order)]

\* The loops for h, for i, for signs, run from the position (h, i, signs)
\* up to the next send, or to the end of the h loop.
RECURSIVE NextEmit(_, _, _, _)
NextEmit(maxH, h, i, signs) ==
    IF h > maxH THEN [more |-> FALSE, h |-> h, i |-> i, signs |-> signs]
    ELSE IF i < 0 THEN NextEmit(maxH, h + 1, FirstPattern(h + 1), 0)
    ELSE LET d == Decode(h, i)
         IN  IF InvalidPolynomial(d.k)
             THEN NextEmit(maxH, h, NextPattern(i), 0)
             ELSE IF signs < SignCount(NonZero(d.coeffMags, d.k))
             THEN [more |-> TRUE, h |-> h, i |-> i, signs |-> signs]
             ELSE NextEmit(maxH, h, NextPattern(i), 0)

(* ------------------------- the root finder ----------------------------- *)
(* findRootsInnerWithRand works in floating point from random starting      *)
(* points.  A root value is modelled by a record [num, den, of]:            *)
(*   - the closed-form root of the base case, -coeffs[0]/coeffs[1], is the  *)
(*     fraction num/den in lowest terms with den > 0 and of = <<>>;         *)
(*   - a root found by the Newton stage running at degree d of polynomial   *)
(*     c (and the final linear root of its deflation, d = 1) is             *)
(*     [num |-> d, den |-> 0, of |-> c]: its numerical value is not         *)
(*     modelled.                                                            *)
(* Which stages converge is a nondeterministic outcome of the call.         *)
RECURSIVE Gcd(_, _)
Gcd(a, b) == IF b = 0 THEN a ELSE Gcd(b, a % b)

Abs(n) == IF n < 0 THEN -n ELSE n

\* -coeffs[0] / coeffs[1]
LinearRoot(coeffs) ==
    LET n == -coeffs[1]
        d == coeffs[2]
        g == Gcd(Abs(n), Abs(d))
        s == IF d < 0 THEN -1 ELSE 1
    IN  [num |-> (s * n) \div g, den |-> (s * d) \div g, of |-> <<>>]

\* The numbers of roots one call can return: 1 (or 0) in the base case;
\* otherwise order when every stage converges, and order - d when the stage
\* at degree d (2 <= d <= order) runs out of iterations.
RootCounts(coeffs, order) ==
    IF order = 1 THEN (IF coeffs[2] # 0 THEN {1} ELSE {0})
    ELSE IF order < 1 THEN {0}
    ELSE {order} \cup {order - d : d \in 2..order}

\* The roots returned when n of them are found, in the order of appending.
RootsFound(coeffs, order, n) ==
    IF order = 1 THEN (IF n = 1 THEN <<LinearRoot(coeffs)>> ELSE <<>>)
    ELSE [s \in 1..n |-> [num |-> order - s + 1, den |-> 0, of |-> coeffs]]

\* workPoints: one Point per root, tagged from the PolyWork
\* (fault variant: the last root of a batch is left out)
WorkPointsSkipsLast(work, roots) ==
    [s \in 1..(Len(roots) - 1) |-> [Z            |-> roots[s],
                                    H            |-> work.h,
                                    O            |-> work.order,
                                    LeadingCoeff |-> work.leadingCoeff]]
WorkPoints(work, roots) ==
    [s \in 1..Len(roots) |-> [Z            |-> roots[s],
                              H            |-> work.h,
                              O            |-> work.order,
                              LeadingCoeff |-> work.leadingCoeff]]

(* ---------------------- channels and WaitGroup ------------------------- *)
\* make(chan T, n)
MakeChan == [buf |-> <<>>, closed |-> FALSE]

\* ch <- v (the caller checks for room)
Send(ch, v) == [ch EXCEPT !.buf = Append(@, v)]

\* what is left in the channel after a receive
\* (fault variant: the received value stays queued)
DequeueKeepsHead(ch) == ch
Dequeue(ch) == [ch EXCEPT !.buf = Tail(@)]

\* close(workCh)
\* (fault variant: the close left out)
CloseWorkSkipped(ch) == ch
CloseWork(ch) == [ch EXCEPT !.closed = TRUE]

\* close(resultCh)
\* (fault variant: closing discards the queued batches)
CloseResultDropsQueued(ch) == [buf |-> <<>>, closed |-> TRUE]
CloseResult(ch) == [ch EXCEPT !.closed = TRUE]

\* wg.Add(1)
\* (fault variant: the Add left out)
WgAddNothing(n) == n
WgAdd(n) == n + 1

\* wg.Done()
WgDone(n) == n - 1

\* wg.Wait() returns
\* (fault variant: Wait does not block)
WgWaitReturnsAtOnce(n) == TRUE
WgWaitReturns(n) == n = 0

(* ------------------------------ state ---------------------------------- *)
VARIABLES
    maxHeight,   \* argument of generateAlgebraicNumbers
    numWorkers,  \* runtime.NumCPU()
    pcMain,      \* position of the calling goroutine
    spawned,     \* loop counter i of the worker-start loop
    wg,          \* sync.WaitGroup counter
    workCh,      \* chan PolyWork
    resultCh,    \* chan []Point
    prod,        \* producer goroutine: [pc, h, i, signs]
    wpc,         \* worker goroutines: position
    wbatch,      \* worker goroutines: workPoints about to be sent
    pcCoord,     \* coordinator goroutine: position
    allPoints,   \* collector: allPoints
    stats,       \* collector: stats.eqns, stats.roots
    panicked,    \* a goroutine panicked (the process is gone)
    emitted,     \* history: every PolyWork sent, in order, with its i and signs
    taken,       \* history: every receive from workCh, in order
    closes,      \* history: number of close(resultCh) executed
    capBudget,   \* findRoots calls that may still hit the iteration cap
    localRand,   \* worker goroutines: the random source held (localRand)
    rngDraws     \* history: <<source, worker>> for every source drawn from

\* the strictly sequential variant, run on the same maxHeight
VARIABLES
    seq,         \* loop position: [pc, h, i, signs]
    seqPoints    \* points

seqVars == <<seq, seqPoints>>

\* one call of findRootsInnerWithRand
VARIABLES
    nPc,         \* position of the outermost call: "idle", "run", "done"
    nInput,      \* the coefficients the outermost call was given
    heap,        \* the coefficient slices: heap[a] is the array at address a
    stack,       \* the frames of findRootsInnerWithRand, outermost first
    nResult,     \* the roots the outermost call returned
    nDraws,      \* history: <<source, order>> of every rng.Float64 pair drawn
    nCapped      \* history: the degrees of the stages that ran out of iterations

newtonVars == <<nPc, nInput, heap, stack, nResult, nDraws, nCapped>>

\* one rendering
VARIABLES
    rPc,         \* "idle", "first" / "second" (rendering), "done"
    rPoints,     \* the points given to the first renderImage call
    rOther,      \* the same points in the order of the second call
    rIdx,        \* position of the loop over the points
    img,         \* the image of the running call: pixel -> [R, G, B, A]
    rFirst,      \* the image the first call produced
    rDrawn       \* history: the drawBlob calls of the running call

renderVars == <<rPc, rPoints, rOther, rIdx, img, rFirst, rDrawn>>

\* one call of generateVideo
VARIABLES
    vPc,         \* "idle", "loop", "pause", "done", "failed"
    vConfig,     \* config: [MaxHeight, FrameRate]
    vH,          \* loop variable h
    vAllPoints,  \* allPoints
    frameNum,    \* frameNum
    vImg,        \* img of the running pass
    vPause,      \* loop variable pause
    vFrames      \* the frame files saved, in order: [file, img, h, pause]

videoVars == <<vPc, vConfig, vH, vAllPoints, frameNum, vImg, vPause, vFrames>>

schedVars == <<maxHeight, numWorkers, pcMain, spawned, wg, workCh, resultCh,
               prod, wpc, wbatch, pcCoord, allPoints, stats, panicked,
               emitted, taken, closes, capBudget, localRand, rngDraws>>

vars == <<schedVars, seqVars, newtonVars, renderVars, videoVars>>

hist == <<emitted, taken, closes, capBudget, rngDraws>>

\* what the scheduler's steps leave alone
others == <<seqVars, newtonVars, renderVars, videoVars>>

\* the sequential variant, a root-finder call and a rendering not started
SeqIdle == seq = [pc |-> "idle", h |-> 2, i |-> 0, signs |-> 0] /\ seqPoints = <<>>

NewtonIdle ==
    /\ nPc = "idle"
    /\ nInput = <<>>
    /\ heap = <<>>
    /\ stack = <<>>
    /\ nResult = <<>>
    /\ nDraws = {}
    /\ nCapped = {}

RenderIdle ==
    /\ rPc = "idle"
    /\ rPoints = <<>>
    /\ rOther = <<>>
    /\ rIdx = 1
    /\ img = <<>>
    /\ rFirst = <<>>
    /\ rDrawn = <<>>

\* generateVideo not called
VideoIdle ==
    /\ vPc = "idle"
    /\ vConfig = [MaxHeight |-> 2, FrameRate |-> 1]
    /\ vH = 2
    /\ vAllPoints = <<>>
    /\ frameNum = 0
    /\ vImg = <<>>
    /\ vPause = 0
    /\ vFrames = <<>>

(* --------------------------- random sources ---------------------------- *)
\* math/rand's process-wide source (rand.Float64())
GlobalSource == 0

\* no source created yet
NoSource == -1

\* localRand := rand.New(rand.NewSource(...)) in worker w: a new object
\* (fault variant: the workers use the process-wide source)
LocalRandShared(w) == GlobalSource
LocalRand(w) == w

\* The sources a call findRootsInnerWithRand(coeffs, order, rng) draws from:
\* none in the base case, otherwise rng (initial guess, restarts, and the
\* recursive calls, which pass rng on).
DrawnSources(order, rng) == IF order = 1 THEN {} ELSE {rng}

\* a send finds room in a channel of capacity n
\* (fault variant: the queue grows instead of blocking the sender)
HasRoomAlways(ch, n) == TRUE
HasRoom(ch, n) == Len(ch.buf) < n

SchedInit(heights, cpus, hits) ==
    /\ maxHeight \in heights
    /\ numWorkers \in cpus
    /\ pcMain = "spawn"
    /\ spawned = 0
    /\ wg = 0
    /\ workCh = MakeChan
    /\ resultCh = MakeChan
    /\ prod = [pc |-> "unborn", h |-> 2, i |-> 0, signs |-> 0]
    /\ wpc = [w \in Workers |-> "unborn"]
    /\ wbatch = [w \in Workers |-> <<>>]
    /\ pcCoord = "unborn"
    /\ allPoints = <<>>
    /\ stats = [eqns |-> 0, roots |-> 0]
    /\ panicked = FALSE
    /\ emitted = <<>>
    /\ taken = <<>>
    /\ closes = 0
    /\ capBudget = hits
    /\ localRand = [w \in Workers |-> NoSource]
    /\ rngDraws = {}

\* generateAlgebraicNumbers not called
SchedIdle == SchedInit({2}, {1}, 0)

InitWith(heights, cpus, hits) ==
    /\ SchedInit(heights, cpus, hits)
    /\ SeqIdle
    /\ VideoIdle
    /\ NewtonIdle
    /\ RenderIdle

Init == InitWith(2..MaxHeight, 1..MaxWorkers, MaxShort)

\* one core, and every Newton stage converges
InitEnum == InitWith(2..EnumMaxHeight, {1}, 0)

(* ------------------------- calling goroutine --------------------------- *)
\* for i := 0; i < numWorkers; i++ { wg.Add(1); go func() {...}() }
MainSpawn ==
    /\ ~panicked
    /\ pcMain = "spawn"
    /\ spawned < numWorkers
    /\ wg' = WgAdd(wg)
    /\ wpc' = [wpc EXCEPT ![spawned + 1] = "start"]
    /\ spawned' = spawned + 1
    /\ UNCHANGED <<others, localRand>>
    /\ UNCHANGED <<maxHeight, numWorkers, pcMain, workCh, resultCh, prod,
                   wbatch, pcCoord, allPoints, stats, panicked, hist>>

\* go func() { defer close(workCh); for h := 2; ... }()
MainGoProducer ==
    /\ ~panicked
    /\ pcMain = "spawn"
    /\ spawned >= numWorkers
    /\ prod' = [pc |-> "run", h |-> 2, i |-> FirstPattern(2), signs |-> 0]
    /\ pcMain' = "goCoord"
    /\ UNCHANGED <<others, localRand>>
    /\ UNCHANGED <<maxHeight, numWorkers, spawned, wg, workCh, resultCh, wpc,
                   wbatch, pcCoord, allPoints, stats, panicked, hist>>

\* go func() { wg.Wait(); close(resultCh) }()
MainGoCoordinator ==
    /\ ~panicked
    /\ pcMain = "goCoord"
    /\ pcCoord' = "wait"
    /\ pcMain' = "collect"
    /\ UNCHANGED <<others, localRand>>
    /\ UNCHANGED <<maxHeight, numWorkers, spawned, wg, workCh, resultCh, prod,
                   wpc, wbatch, allPoints, stats, panicked, hist>>

\* stats.eqns++; stats.roots += len(points)
\* (fault variant: a batch without points is not counted)
TallySkipsEmpty(st, points) ==
    [eqns  |-> st.eqns + (IF Len(points) > 0 THEN 1 ELSE 0),
     roots |-> st.roots + Len(points)]
Tally(st, points) ==
    [eqns  |-> st.eqns + 1,
     roots |-> st.roots + Len(points)]

\* for points := range resultCh { stats.eqns++; ... }
MainCollect ==
    /\ ~panicked
    /\ pcMain = "collect"
    /\ Len(resultCh.buf) > 0
    /\ LET points == Head(resultCh.buf)
       IN  /\ stats' = Tally(stats, points)
           /\ allPoints' = allPoints \o points
    /\ resultCh' = Dequeue(resultCh)
    /\ UNCHANGED <<others, localRand>>
    /\ UNCHANGED <<maxHeight, numWorkers, pcMain, spawned, wg, workCh, prod,
                   wpc, wbatch, pcCoord, panicked, hist>>

\* the range loop ends: resultCh is closed and drained; return allPoints
MainReturn ==
    /\ ~panicked
    /\ pcMain = "collect"
    /\ Len(resultCh.buf) = 0
    /\ resultCh.closed
    /\ pcMain' = "returned"
    /\ UNCHANGED <<others, localRand>>
    /\ UNCHANGED <<maxHeight, numWorkers, spawned, wg, workCh, resultCh, prod,
                   wpc, wbatch, pcCoord, allPoints, stats, panicked, hist>>

(* ------------------------------ producer ------------------------------- *)
(* Between two sends the producer only runs its own loops (h, i, signs);    *)
(* no other goroutine can see those steps, so they are folded into the      *)
(* send (or the close) that follows them.  prod.h, prod.i, prod.signs are   *)
(* the loop variables at the point where the loops resume.                  *)

\* workCh <- PolyWork{...}, after advancing the loops to the next emission
ProdSend ==
    /\ ~panicked
    /\ prod.pc = "run"
    /\ LET e == NextEmit(maxHeight, prod.h, prod.i, prod.signs)
       IN  /\ e.more
           /\ HasRoom(workCh, WorkCap)
           /\ LET work == PolyWork(e.h, e.i, e.signs)
              IN  /\ workCh' = Send(workCh, work)
                  /\ emitted' = Append(emitted, [work  |-> work,
                                                 i     |-> e.i,
                                                 signs |-> e.signs])
           /\ prod' = [prod EXCEPT !.h = e.h, !.i = e.i, !.signs = e.signs + 1]
    /\ UNCHANGED <<others, localRand>>
    /\ UNCHANGED <<maxHeight, numWorkers, pcMain, spawned, wg, resultCh, wpc,
                   wbatch, pcCoord, allPoints, stats, panicked, taken, closes,
                   capBudget, rngDraws>>

\* the loops run out (h > maxHeight); defer close(workCh)
ProdClose ==
    /\ ~panicked
    /\ prod.pc = "run"
    /\ ~NextEmit(maxHeight, prod.h, prod.i, prod.signs).more
    /\ workCh' = CloseWork(workCh)
    /\ prod' = [prod EXCEPT !.pc = "done"]
    /\ UNCHANGED <<others, localRand>>
    /\ UNCHANGED <<maxHeight, numWorkers, pcMain, spawned, wg, resultCh, wpc,
                   wbatch, pcCoord, allPoints, stats, panicked, hist>>

Producer == ProdSend \/ ProdClose

(* ------------------------------- workers ------------------------------- *)
\* defer wg.Done(); localRand := rand.New(rand.NewSource(...))
WorkerStart(w) ==
    /\ ~panicked
    /\ wpc[w] = "start"
    /\ localRand' = [localRand EXCEPT ![w] = LocalRand(w)]
    /\ wpc' = [wpc EXCEPT ![w] = "recv"]
    /\ UNCHANGED others
    /\ UNCHANGED <<maxHeight, numWorkers, pcMain, spawned, wg, workCh,
                   resultCh, prod, wbatch, pcCoord, allPoints, stats, panicked,
                   hist>>

\* work := <-workCh; roots := findRootsInnerWithRand(...); build workPoints
WorkerRecv(w) ==
    /\ ~panicked
    /\ wpc[w] = "recv"
    /\ Len(workCh.buf) > 0
    /\ LET work == Head(workCh.buf)
       IN  \E n \in RootCounts(work.coeffs, work.order) :
             LET roots   == RootsFound(work.coeffs, work.order, n)
                 isShort == work.order > 1 /\ n < work.order
             IN  /\ isShort => capBudget > 0
                 /\ capBudget' = IF isShort THEN capBudget - 1 ELSE capBudget
                 /\ wbatch' = [wbatch EXCEPT ![w] = WorkPoints(work, roots)]
                 /\ taken' = Append(taken, [work  |-> work,
                                            roots |-> roots])
                 /\ rngDraws' = rngDraws \cup
                        {<<src, w>> :
                            src \in DrawnSources(work.order, localRand[w])}
    /\ workCh' = Dequeue(workCh)
    /\ wpc' = [wpc EXCEPT ![w] = "send"]
    /\ UNCHANGED <<others, localRand>>
    /\ UNCHANGED <<maxHeight, numWorkers, pcMain, spawned, wg, resultCh, prod,
                   pcCoord, allPoints, stats, panicked, emitted, closes>>

\* resultCh <- workPoints (a send on a closed channel panics)
WorkerSend(w) ==
    /\ ~panicked
    /\ wpc[w] = "send"
    /\ \/ /\ resultCh.closed
          /\ panicked' = TRUE
          /\ UNCHANGED <<resultCh, wpc, wbatch>>
       \/ /\ ~resultCh.closed
          /\ HasRoom(resultCh, ResultCap)
          /\ resultCh' = Send(resultCh, wbatch[w])
          /\ wpc' = [wpc EXCEPT ![w] = "recv"]
          /\ wbatch' = [wbatch EXCEPT ![w] = <<>>]
          /\ UNCHANGED panicked
    /\ UNCHANGED <<others, localRand>>
    /\ UNCHANGED <<maxHeight, numWorkers, pcMain, spawned, wg, workCh, prod,
                   pcCoord, allPoints, stats, hist>>

\* the range loop ends: workCh is closed and drained; deferred wg.Done()
\* (a negative WaitGroup counter panics)
WorkerExit(w) ==
    /\ ~panicked
    /\ wpc[w] = "recv"
    /\ Len(workCh.buf) = 0
    /\ workCh.closed
    /\ wg' = WgDone(wg)
    /\ panicked' = (WgDone(wg) < 0)
    /\ wpc' = [wpc EXCEPT ![w] = "done"]
    /\ UNCHANGED <<others, localRand>>
    /\ UNCHANGED <<maxHeight, numWorkers, pcMain, spawned, workCh, resultCh,
                   prod, wbatch, pcCoord, allPoints, stats, hist>>

Worker(w) ==
    WorkerStart(w) \/ WorkerRecv(w) \/ WorkerSend(w) \/ WorkerExit(w)

(* ----------------------------- coordinator ----------------------------- *)
\* wg.Wait()
CoordWait ==
    /\ ~panicked
    /\ pcCoord = "wait"
    /\ WgWaitReturns(wg)
    /\ pcCoord' = "close"
    /\ UNCHANGED <<others, localRand>>
    /\ UNCHANGED <<maxHeight, numWorkers, pcMain, spawned, wg, workCh,
                   resultCh, prod, wpc, wbatch, allPoints, stats, panicked,
                   hist>>

\* close(resultCh) (closing a closed channel panics)
CoordClose ==
    /\ ~panicked
    /\ pcCoord = "close"
    /\ panicked' = resultCh.closed
    /\ resultCh' = CloseResult(resultCh)
    /\ closes' = closes + 1
    /\ pcCoord' = "done"
    /\ UNCHANGED <<others, localRand>>
    /\ UNCHANGED <<maxHeight, numWorkers, pcMain, spawned, wg, workCh, prod,
                   wpc, wbatch, allPoints, stats, emitted, taken, capBudget,
                   rngDraws>>

Coordinator == CoordWait \/ CoordClose

Main == MainSpawn \/ MainGoProducer \/ MainGoCoordinator \/ MainCollect
           \/ MainReturn

Next ==
    \/ MainSpawn
    \/ MainGoProducer
    \/ MainGoCoordinator
    \/ MainCollect
    \/ MainReturn
    \/ ProdSend
    \/ ProdClose
    \/ \E w \in Workers : WorkerStart(w)
    \/ \E w \in Workers : WorkerRecv(w)
    \/ \E w \in Workers : WorkerSend(w)
    \/ \E w \in Workers : WorkerExit(w)
    \/ CoordWait
    \/ CoordClose

\* every interleaving of the goroutines, all core counts up to MaxWorkers
Spec == Init /\ [][Next]_vars

\* the same program on one core, to larger heights
EnumSpec == InitEnum /\ [][Next]_vars

\* the Go scheduler runs every runnable goroutine eventually
Fairness ==
    /\ WF_vars(Main)
    /\ WF_vars(Producer)
    /\ \A w \in Workers : WF_vars(Worker(w))
    /\ WF_vars(Coordinator)

LiveSpec == Init /\ [][Next]_vars /\ Fairness

(* ------------------------ the sequential variant ----------------------- *)
(* generateAlgebraicNumbers of the sequential program: the same three loops  *)
(* with findRootsInner called in place.  It is run after the parallel call  *)
(* has returned, and findRootsInner is taken as a function of the           *)
(* polynomial: it returns what the parallel run's call returned for the     *)
(* same coefficients.                                                       *)

\* findRootsInner(coeffs, order) as a function of the polynomial
RootsOracle(coeffs) ==
    IF \E n \in 1..Len(taken) : taken[n].work.coeffs = coeffs
    THEN taken[CHOOSE n \in 1..Len(taken) : taken[n].work.coeffs = coeffs].roots
    ELSE <<>>

\* points = append(points, Point{Z: root, H: h, O: order, LeadingCoeff: ...})
SeqPointsOf(h, i, signs, roots) ==
    LET d == Decode(h, i)
    IN  [s \in 1..Len(roots) |-> [Z            |-> roots[s],
                                  H            |-> h,
                                  O            |-> d.k,
                                  LeadingCoeff |-> d.coeffMags[d.k]]]

\* var points []Point; for h := 2; ...
SeqStart ==
    /\ pcMain = "returned"
    /\ seq.pc = "idle"
    /\ seq' = [pc |-> "run", h |-> 2, i |-> FirstPattern(2), signs |-> 0]
    /\ UNCHANGED <<schedVars, seqPoints, newtonVars, renderVars, videoVars>>

\* the loops up to the next polynomial; findRootsInner; append its points
SeqStep ==
    /\ seq.pc = "run"
    /\ LET e == NextEmit(maxHeight, seq.h, seq.i, seq.signs)
       IN  /\ e.more
           /\ LET coeffs == BuildCoeffs(Decode(e.h, e.i).coeffMags,
                                        Decode(e.h, e.i).k, e.signs)
              IN  seqPoints' = seqPoints \o
                      SeqPointsOf(e.h, e.i, e.signs, RootsOracle(coeffs))
           /\ seq' = [seq EXCEPT !.h = e.h, !.i = e.i, !.signs = e.signs + 1]
    /\ UNCHANGED <<schedVars, newtonVars, renderVars, videoVars>>

\* the loops run out; return points
SeqReturn ==
    /\ seq.pc = "run"
    /\ ~NextEmit(maxHeight, seq.h, seq.i, seq.signs).more
    /\ seq' = [seq EXCEPT !.pc = "done"]
    /\ UNCHANGED <<schedVars, seqPoints, newtonVars, renderVars, videoVars>>

EquivNext == Next \/ SeqStart \/ SeqStep \/ SeqReturn

\* the parallel program, then the sequential one on the same maxHeight
EquivSpec == Init /\ [][EquivNext]_vars

(* ------------------- the root finder, step by step --------------------- *)
(* findRootsInnerWithRand with its iteration counter, restarts, deflation   *)
(* and recursion.  The floating-point iterate is not computed: root is      *)
(* "random" when it holds a freshly drawn point and "iterate" when it holds *)
(* the result of a Newton step; whether an iteration finds the derivative   *)
(* degenerate, converges, or just steps is a nondeterministic outcome, and  *)
(* so is the value converged to (an integer of magnitude <= MaxRootMag).    *)
(* Slices are addresses into heap, so that an aliased write would show.     *)

\* const maxIters = 5000
MaxIters == 5000

\* iter%500
RestartEvery == 500

\* the values a stage may converge to
NewtonValues == (-MaxRootMag)..MaxRootMag

\* the coefficient lists of the polynomials the enumerator sends
RECURSIVE PolysFrom(_, _, _, _)
PolysFrom(maxH, h, i, signs) ==
    LET e == NextEmit(maxH, h, i, signs)
    IN  IF ~e.more THEN {}
        ELSE {PolyWork(e.h, e.i, e.signs).coeffs}
                 \cup PolysFrom(maxH, e.h, e.i, e.signs + 1)

\* what findRootsInnerWithRand is called with: the enumerator's polynomials
\* and, from any other caller, degree 1 with a zero linear coefficient
NewtonInputs ==
    PolysFrom(NewtonMaxHeight, 2, FirstPattern(2), 0)
        \cup {<<c0, 0>> : c0 \in 0..1}

\* iter < maxIters
\* (fault variant: iter <= maxIters)
LoopContinuesInclusive(iter) == iter <= MaxIters
LoopContinues(iter) == iter < MaxIters

\* iter%500 == 0 && iter > 0
\* (fault variant: never)
RestartDueNever(iter) == FALSE
RestartDue(iter) == iter % RestartEvery = 0 /\ iter > 0

\* if order == 1 { if coeffs[1] != 0 { return {-coeffs[0]/coeffs[1]} }; return nil }
\* (fault variant: coeffs[0]/coeffs[1])
BaseCaseSignDropped(coeffs) ==
    IF coeffs[2] # 0 THEN <<LinearRoot(<<-coeffs[1], coeffs[2]>>)>> ELSE <<>>
BaseCase(coeffs) ==
    IF coeffs[2] # 0 THEN <<LinearRoot(coeffs)>> ELSE <<>>

\* roots = append(roots, root); break
\* (fault variant: no break)
ConvergedNoBreak(f, v) ==
    [f EXCEPT !.roots = Append(@, [num |-> v, den |-> 1, of |-> <<>>]),
              !.iter = @ + 1, !.root = "iterate", !.last = "converged"]
Converged(f, v) ==
    [f EXCEPT !.roots = Append(@, [num |-> v, den |-> 1, of |-> <<>>]),
              !.iter = 0, !.root = "iterate", !.last = "converged",
              !.pc = "after"]

\* coeffs[order], the value put in newCoeffs[order-1]
\* (fault variant: coeffs[order-1])
DeflatedLeadingShifted(hp, src, order) == hp[src][order]
DeflatedLeading(hp, src, order) == hp[src][order + 1]

\* make([]complex128, n)
Alloc(hp, n) == Append(hp, [x \in 1..n |-> 0])

\* the address of newCoeffs
\* (fault variant: newCoeffs shares the array of coeffs)
NewCoeffsAliased(hp, parent) == parent
NewCoeffs(hp, parent) == Len(hp) + 1

\* a[i] = v  (i counted from 0)
Store(hp, a, i, v) == [hp EXCEPT ![a][i + 1] = v]

\* for i := order - 2; i >= 0; i-- { newCoeffs[i] = coeffs[i+1] + r*newCoeffs[i+1] }
RECURSIVE DeflateLoop(_, _, _, _, _)
DeflateLoop(hp, src, dst, r, i) ==
    IF i < 0 THEN hp
    ELSE DeflateLoop(Store(hp, dst, i, hp[src][i + 2] + r * hp[dst][i + 2]),
                     src, dst, r, i - 1)

\* a frame of findRootsInnerWithRand(coeffs, order, rng) at its first statement
Frame(hp, a, order, rng) ==
    [coeffs |-> a, order |-> order, rng |-> rng, given |-> hp[a],
     roots |-> <<>>, iter |-> 0, root |-> "none", last |-> "none",
     pc |-> "entry"]

Top == stack[Len(stack)]
SetTop(f) == [stack EXCEPT ![Len(stack)] = f]

\* a caller calls findRootsInnerWithRand(coeffs, len(coeffs) - 1, rng)
NewtonInit ==
    /\ SchedIdle
    /\ SeqIdle
    /\ VideoIdle
    /\ RenderIdle
    /\ nPc = "run"
    /\ nInput \in NewtonInputs
    /\ heap = <<nInput>>
    /\ stack = <<Frame(heap, 1, Len(nInput) - 1, LocalRand(1))>>
    /\ nResult = <<>>
    /\ nDraws = {}
    /\ nCapped = {}

\* the base case, or the initial random guess
NewtonEnter ==
    /\ nPc = "run"
    /\ Top.pc = "entry"
    /\ IF Top.order = 1
       THEN /\ stack' = SetTop([Top EXCEPT !.roots = BaseCase(heap[Top.coeffs]),
                                           !.pc = "return"])
            /\ UNCHANGED nDraws
       ELSE /\ stack' = SetTop([Top EXCEPT !.root = "random", !.pc = "loop"])
            /\ nDraws' = nDraws \cup {<<Top.rng, Top.order>>}
    /\ UNCHANGED <<schedVars, seqVars, renderVars, videoVars, nPc, nInput, heap, nResult,
                   nCapped>>

\* one pass through the loop body
NewtonIter ==
    /\ nPc = "run"
    /\ Top.pc = "loop"
    /\ LoopContinues(Top.iter)
    /\ \/ \* cmplx.Abs(df) < 1e-15: new starting point; continue
          /\ stack' = SetTop([Top EXCEPT !.iter = @ + 1, !.root = "random",
                                         !.last = "degenerate"])
          /\ nDraws' = nDraws \cup {<<Top.rng, Top.order>>}
       \/ \* the step converges
          /\ \E v \in NewtonValues : stack' = SetTop(Converged(Top, v))
          /\ UNCHANGED nDraws
       \/ \* the step does not converge; restart when due
          /\ IF RestartDue(Top.iter)
             THEN /\ stack' = SetTop([Top EXCEPT !.iter = @ + 1,
                                                 !.root = "random",
                                                 !.last = "step"])
                  /\ nDraws' = nDraws \cup {<<Top.rng, Top.order>>}
             ELSE /\ stack' = SetTop([Top EXCEPT !.iter = @ + 1,
                                                 !.root = "iterate",
                                                 !.last = "step"])
                  /\ UNCHANGED nDraws
    /\ UNCHANGED <<schedVars, seqVars, renderVars, videoVars, nPc, nInput, heap, nResult,
                   nCapped>>

\* the loop condition fails
NewtonLoopEnd ==
    /\ nPc = "run"
    /\ Top.pc = "loop"
    /\ ~LoopContinues(Top.iter)
    /\ stack' = SetTop([Top EXCEPT !.iter = 0, !.last = "capped",
                                   !.pc = "after"])
    /\ nCapped' = nCapped \cup {Top.order}
    /\ UNCHANGED <<schedVars, seqVars, renderVars, videoVars, nPc, nInput, heap, nResult,
                   nDraws>>

\* if len(roots) > 0 { deflate; call on newCoeffs } else fall through to return
NewtonDeflate ==
    /\ nPc = "run"
    /\ Top.pc = "after"
    /\ IF Len(Top.roots) > 0
       THEN LET r   == Top.roots[1].num
                src == Top.coeffs
                dst == NewCoeffs(heap, src)
                h1  == Alloc(heap, Top.order)
                h2  == Store(h1, dst, Top.order - 1,
                             DeflatedLeading(h1, src, Top.order))
                h3  == DeflateLoop(h2, src, dst, r, Top.order - 2)
            IN  /\ heap' = h3
                /\ stack' = Append(SetTop([Top EXCEPT !.pc = "call"]),
                                   Frame(h3, dst, Top.order - 1, Top.rng))
       ELSE /\ stack' = SetTop([Top EXCEPT !.pc = "return"])
            /\ UNCHANGED heap
    /\ UNCHANGED <<schedVars, seqVars, renderVars, videoVars, nPc, nInput, nResult, nDraws,
                   nCapped>>

\* return roots: to the calling frame (roots = append(roots, remaining...))
\* or to the caller of the outermost call
NewtonReturn ==
    /\ nPc = "run"
    /\ Top.pc = "return"
    /\ IF Len(stack) = 1
       THEN /\ nResult' = Top.roots
            /\ nPc' = "done"
            /\ stack' = SetTop([Top EXCEPT !.pc = "returned"])
       ELSE /\ stack' = [SubSeq(stack, 1, Len(stack) - 1)
                            EXCEPT ![Len(stack) - 1] =
                                [@ EXCEPT !.roots = @ \o Top.roots,
                                          !.pc = "return"]]
            /\ UNCHANGED <<nResult, nPc>>
    /\ UNCHANGED <<schedVars, seqVars, renderVars, videoVars, nInput, heap, nDraws,
                   nCapped>>

NewtonNext ==
    \/ NewtonEnter
    \/ NewtonIter
    \/ NewtonLoopEnd
    \/ NewtonDeflate
    \/ NewtonReturn

NewtonSpec == NewtonInit /\ [][NewtonNext]_vars

\* the call is a single thread of control that keeps running
NewtonLiveSpec == NewtonSpec /\ WF_vars(NewtonNext)

(* ----------------------------- the renderer ---------------------------- *)
(* renderImage and drawBlob, for the viewport XMin = 0,                     *)
(* XMax = 24.91101954293734 (the blob radius 25*(4/xRange)*0.5^(H-3) is     *)
(* then 4.014287726266569 for H = 3 and is clamped to 3.0 for H >= 4).      *)
(* A point's plane coordinates are given by the cell they fall in: cx is    *)
(* int((x-XMin)/xRange*Width), with -1 for x < XMin, ImgW for x = XMax and  *)
(* ImgW+1 for x > XMax; cy likewise from YMin upwards.                      *)
(*                                                                          *)
(* The float64 arithmetic of the blend is kept exact where the result       *)
(* depends on it.  For a channel value c of the colour and a pixel at       *)
(* squared distance d2 the product x = float64(c)*intensity is tabulated    *)
(* as <<whole, carryFrom>>: whole = floor(x), and carryFrom is the least    *)
(* exponent b for which x lies within half a unit in the last place of the  *)
(* next integer among the float64 values in [2^b, 2^(b+1)), so that the     *)
(* float64 sum float64(e) + x rounds to the integer e + whole + 1 exactly   *)
(* when e + whole >= 2^carryFrom (8 when no sum below 256 does).  A table   *)
(* row is <<whole, carryFrom>> for c = 255 followed by the same for         *)
(* c = 128; row d2+1 is for squared distance d2, and the table ends where   *)
(* intensity > 0.005 fails.                                                 *)

\* radius 3.0: sigma = 1.2, intensity = math.Exp(-d2/2.88)
GaussMin ==
    <<<<255, 8, 128, 8>>, <<180, 8, 90, 8>>, <<127, 8, 63, 8>>,
      <<89, 8, 45, 8>>, <<63, 8, 31, 8>>, <<44, 8, 22, 8>>,
      <<31, 8, 15, 8>>, <<22, 8, 11, 8>>, <<15, 8, 7, 8>>, <<11, 8, 5, 8>>,
      <<7, 8, 3, 8>>, <<5, 8, 2, 8>>, <<3, 8, 1, 8>>, <<2, 8, 1, 8>>,
      <<1, 8, 0, 8>>, <<1, 8, 0, 8>>>>

\* radius 4.014287726266569: at d2 = 25 the intensity is
\* 0.007843137254901923 and 255*intensity = 1.9999999999999902
GaussWide ==
    <<<<255, 8, 128, 8>>, <<210, 8, 105, 8>>, <<173, 8, 86, 8>>,
      <<142, 8, 71, 8>>, <<117, 8, 58, 8>>, <<96, 8, 48, 8>>,
      <<79, 8, 39, 8>>, <<65, 8, 32, 8>>, <<54, 8, 27, 8>>,
      <<44, 8, 22, 8>>, <<36, 8, 18, 8>>, <<30, 8, 15, 8>>,
      <<24, 8, 12, 8>>, <<20, 8, 10, 8>>, <<16, 8, 8, 8>>, <<13, 8, 6, 8>>,
      <<11, 8, 5, 8>>, <<9, 8, 4, 8>>, <<7, 8, 3, 8>>, <<6, 8, 3, 8>>,
      <<5, 8, 2, 8>>, <<4, 8, 2, 8>>, <<3, 8, 1, 8>>, <<2, 8, 1, 8>>,
      <<2, 8, 1, 8>>, <<1, 7, 1, 8>>, <<1, 8, 0, 8>>, <<1, 8, 0, 8>>>>

\* radius := k1 * math.Pow(k2, float64(point.H-3)), clamped to [3, 80]
Radius(h) == IF h <= 3 THEN "wide" ELSE "min"

\* the table of a radius
Gauss(radius) == IF radius = "wide" THEN GaussWide ELSE GaussMin

\* r := int(radius + 5)
Extent(radius) == IF radius = "wide" THEN 9 ELSE 8

\* intensity > 0.005
Visible(radius, d2) == d2 + 1 <= Len(Gauss(radius))

\* float64(c) * intensity, for a channel value c of the colour table
Product(c, radius, d2) ==
    LET row == Gauss(radius)[d2 + 1]
    IN  IF c = 255 THEN [whole |-> row[1], carryFrom |-> row[2]]
        ELSE IF c = 128 THEN [whole |-> row[3], carryFrom |-> row[4]]
        ELSE [whole |-> 0, carryFrom |-> 8]

\* the integer part of the float64 sum float64(e) + x
SumFloor(e, x) ==
    e + x.whole + (IF e + x.whole >= 2^x.carryFrom THEN 1 ELSE 0)

\* if newR > 255 { newR = 255 }
Clamp(v) == IF v > 255 THEN 255 ELSE v

\* uint8(newR)
ToUint8(v) == v % 256

\* one channel of the pixel after the blend
Blend(e, c, radius, d2) == ToUint8(Clamp(SumFloor(e, Product(c, radius, d2))))

\* getColorForLeadingCoeff
Color(coeff) ==
    CASE coeff = 1  -> [R |-> 255, G |-> 0,   B |-> 0,   A |-> 255]
      [] coeff = 2  -> [R |-> 0,   G |-> 255, B |-> 0,   A |-> 255]
      [] coeff = 3  -> [R |-> 0,   G |-> 0,   B |-> 255, A |-> 255]
      [] coeff = 4  -> [R |-> 255, G |-> 255, B |-> 0,   A |-> 255]
      [] coeff = 5  -> [R |-> 255, G |-> 0,   B |-> 255, A |-> 255]
      [] coeff = 6  -> [R |-> 0,   G |-> 255, B |-> 255, A |-> 255]
      [] coeff = 7  -> [R |-> 255, G |-> 128, B |-> 0,   A |-> 255]
      [] coeff = 8  -> [R |-> 128, G |-> 255, B |-> 0,   A |-> 255]
      [] coeff = 9  -> [R |-> 255, G |-> 0,   B |-> 128, A |-> 255]
      [] coeff = 10 -> [R |-> 128, G |-> 0,   B |-> 255, A |-> 255]
      [] OTHER      -> [R |-> 255, G |-> 255, B |-> 255, A |-> 255]

\* the pixels of the image
Pixels == (0..(ImgW - 1)) \X (0..(ImgH - 1))

\* image.NewRGBA filled with black
Black == [px \in Pixels |-> [R |-> 0, G |-> 0, B |-> 0, A |-> 255]]

\* the pixel px is reached by the loops of drawBlob around (x, y) and its
\* intensity passes the threshold
Affected(px, x, y, radius) ==
    LET dx == px[1] - x
        dy == px[2] - y
    IN  /\ dx >= -Extent(radius) /\ dx <= Extent(radius)
        /\ dy >= -Extent(radius) /\ dy <= Extent(radius)
        /\ Visible(radius, dx * dx + dy * dy)

\* drawBlob(img, x, y, radius, col)
DrawBlob(im, x, y, radius, col) ==
    [px \in Pixels |->
        IF Affected(px, x, y, radius)
        THEN LET d2 == (px[1] - x) * (px[1] - x) + (px[2] - y) * (px[2] - y)
             IN  [R |-> Blend(im[px].R, col.R, radius, d2),
                  G |-> Blend(im[px].G, col.G, radius, d2),
                  B |-> Blend(im[px].B, col.B, radius, d2),
                  A |-> 255]
        ELSE im[px]]

\* x < XMin || x > XMax || y < YMin || y > YMax
\* (fault variant: the upper boundaries excluded)
OutsideViewportExclusive(p) ==
    p.cx < 0 \/ p.cx >= ImgW \/ p.cy < 0 \/ p.cy >= ImgH
OutsideViewport(p) == p.cx < 0 \/ p.cx > ImgW \/ p.cy < 0 \/ p.cy > ImgH

\* screenX, screenY (Y flipped)
ScreenX(p) == p.cx
ScreenY(p) == ImgH - p.cy

\* the colour of the blob of a point
\* (fault variant: looked up by the degree)
BlobColorByDegree(p) == Color(p.O)
BlobColor(p) == Color(p.LeadingCoeff)

\* Point{Z, H, O, LeadingCoeff}, Z given by its cell
Point(cx, cy, h, o, lc) ==
    [cx |-> cx, cy |-> cy, H |-> h, O |-> o, LeadingCoeff |-> lc]

\* the points a call may be given: overlapping blobs of both radii on one
\* row, and points on and beyond each side of the viewport
RenderPool ==
    {Point(cx, ImgH, h, 1, lc) : cx \in {0, ImgW - 2}, h \in 3..4, lc \in {1, 8}}
        \cup {Point(-1, ImgH, 4, 1, 1), Point(ImgW, ImgH, 4, 1, 1),
              Point(ImgW + 1, ImgH, 4, 1, 1), Point(0, 0, 4, 1, 1),
              Point(0, -1, 4, 1, 1), Point(0, ImgH + 1, 4, 1, 1)}

\* the rearrangements of positions 1..n
Orderings(n) ==
    {f \in [1..n -> 1..n] : \A a, b \in 1..n : a # b => f[a] # f[b]}

\* renderImage(points, config) is called, and will be called again on the
\* same points in another order
RenderInitWith(pool, most) ==
    /\ SchedIdle
    /\ SeqIdle
    /\ VideoIdle
    /\ NewtonIdle
    /\ rPc = "first"
    /\ \E n \in 0..most :
           /\ rPoints \in [1..n -> pool]
           /\ \E f \in Orderings(n) : rOther = [k \in 1..n |-> rPoints[f[k]]]
    /\ rIdx = 1
    /\ img = Black
    /\ rFirst = <<>>
    /\ rDrawn = <<>>

RenderInit == RenderInitWith(RenderPool, MaxPoints)

\* points of every leading coefficient and degree, in the first cell
ColorPool ==
    {Point(0, ImgH, 4, o, lc) : o \in 1..MaxDegree, lc \in 1..MaxLead}

\* renderImage is called with one point
ColorInit == RenderInitWith(ColorPool, 1)

\* the points of the running call
Current == IF rPc = "first" THEN rPoints ELSE rOther

\* one pass of the loop over the points: skip, or transform and draw
RenderPoint ==
    /\ rPc \in {"first", "second"}
    /\ rIdx <= Len(Current)
    /\ LET p == Current[rIdx]
       IN  IF OutsideViewport(p)
           THEN UNCHANGED <<img, rDrawn>>
           ELSE /\ img' = DrawBlob(img, ScreenX(p), ScreenY(p), Radius(p.H),
                                   BlobColor(p))
                /\ rDrawn' = Append(rDrawn, [x |-> ScreenX(p),
                                             y |-> ScreenY(p),
                                             col |-> BlobColor(p)])
    /\ rIdx' = rIdx + 1
    /\ UNCHANGED <<schedVars, seqVars, newtonVars, videoVars, rPc, rPoints, rOther,
                   rFirst>>

\* the first call encodes its image and returns; the second call starts
RenderFirstDone ==
    /\ rPc = "first"
    /\ rIdx > Len(rPoints)
    /\ rFirst' = img
    /\ img' = Black
    /\ rDrawn' = <<>>
    /\ rIdx' = 1
    /\ rPc' = "second"
    /\ UNCHANGED <<schedVars, seqVars, newtonVars, videoVars, rPoints, rOther>>

\* the second call encodes its image and returns
RenderSecondDone ==
    /\ rPc = "second"
    /\ rIdx > Len(rOther)
    /\ rPc' = "done"
    /\ UNCHANGED <<schedVars, seqVars, newtonVars, videoVars, rPoints, rOther, rIdx, img,
                   rFirst, rDrawn>>

RenderNext == RenderPoint \/ RenderFirstDone \/ RenderSecondDone

RenderSpec == RenderInit /\ [][RenderNext]_vars

ColorSpec == ColorInit /\ [][RenderNext]_vars

(* ------------------------------ the video ------------------------------ *)
(* generateVideo, one pass of its loops per step.  The slice a generate    *)
(* call returns is summarised by height: points[k] is the number of        *)
(* PolyWork items sent with tag k, whose roots are the points with H = k.  *)
(* An image is the pair of the points it was rendered from and the height  *)
(* written on it; a file name is the sequence of the digits in it.         *)

\* the PolyWork items the signs loop sends for pattern i of height h
SentFor(h, i) ==
    LET d == Decode(h, i)
    IN  IF InvalidPolynomial(d.k) THEN 0
        ELSE SignCount(NonZero(d.coeffMags, d.k))

\* i after n more passes of the i loop
RECURSIVE PatternAfter(_, _)
PatternAfter(i, n) ==
    IF n = 0 THEN i ELSE PatternAfter(NextPattern(i), n - 1)

\* the PolyWork items sent by the next n passes of the i loop, from pattern
\* i on
RECURSIVE SentIn(_, _, _)
SentIn(h, i, n) ==
    IF i < 0 \/ n = 0 THEN 0
    ELSE SentFor(h, i) + SentIn(h, NextPattern(i), n - 1)

\* the PolyWork items sent by the i loop from pattern i on, summed 32 passes
\* at a time
RECURSIVE SentFrom(_, _)
SentFrom(h, i) ==
    IF i < 0 THEN 0
    ELSE SentIn(h, i, 32) + SentFrom(h, PatternAfter(i, 32))

\* generateAlgebraicNumbers(maxHeight): for h := 2; h <= maxHeight; h++
GenerateAlgebraicNumbers(maxH) ==
    [h \in 2..maxH |-> SentFrom(h, FirstPattern(h))]

\* allPoints = newPoints
\* (fault variant: allPoints = append(allPoints, newPoints...))
KeepPointsAppended(old, newPoints) ==
    [h \in DOMAIN newPoints |->
        newPoints[h] + (IF h \in DOMAIN old THEN old[h] ELSE 0)]
KeepPoints(old, newPoints) == newPoints

\* renderImageToBuffer(allPoints, config)
RenderImageToBuffer(points) == [points |-> points, text |-> 0]

\* addTextOverlay(img, fmt.Sprintf("Height: %d", h), config)
AddTextOverlay(image, h) == [image EXCEPT !.text = h]

\* the decimal digits of n
RECURSIVE Digits(_)
Digits(n) == IF n < 10 THEN <<n>> ELSE Append(Digits(n \div 10), n % 10)

\* fmt.Sprintf("frame_%04d.jpg", frameNum)
FramePath(n) ==
    LET d == Digits(n)
    IN  [k \in 1..(4 - Len(d)) |-> 0] \o d

\* if h <= 5 || h%5 == 0
PauseAt(h) == h <= 5 \/ h % 5 = 0

\* pause < config.FrameRate/2
PauseFrames(rate) == rate \div 2

\* main validates the flags and calls generateVideo(config)
VideoInit ==
    /\ SchedIdle
    /\ SeqIdle
    /\ NewtonIdle
    /\ RenderIdle
    /\ vPc = "loop"
    /\ vConfig \in [MaxHeight : 2..VideoMaxHeight, FrameRate : 1..MaxFrameRate]
    /\ vH = 2
    /\ vAllPoints = <<>>
    /\ frameNum = 0
    /\ vImg = <<>>
    /\ vPause = 0
    /\ vFrames = <<>>

\* one pass of the h loop down to frameNum++: generate, render, overlay and
\* save the frame; a failed save returns the error
VideoFrame ==
    /\ vPc = "loop"
    /\ vH <= vConfig.MaxHeight
    /\ LET newPoints == GenerateAlgebraicNumbers(vH)
           points    == KeepPoints(vAllPoints, newPoints)
           image     == AddTextOverlay(RenderImageToBuffer(points), vH)
       IN  /\ vAllPoints' = points
           /\ vImg' = image
           /\ \/ /\ vFrames' = Append(vFrames, [file  |-> FramePath(frameNum),
                                                img   |-> image,
                                                h     |-> vH,
                                                pause |-> 0])
                 /\ frameNum' = frameNum + 1
                 /\ vPause' = 0
                 /\ vPc' = "pause"
              \/ /\ vPc' = "failed"
                 /\ UNCHANGED <<vFrames, frameNum, vPause>>
    /\ UNCHANGED <<schedVars, seqVars, newtonVars, renderVars, vConfig, vH>>

\* one pass of the pause loop: save the frame again
VideoPause ==
    /\ vPc = "pause"
    /\ PauseAt(vH)
    /\ vPause < PauseFrames(vConfig.FrameRate)
    /\ \/ /\ vFrames' = Append(vFrames, [file  |-> FramePath(frameNum),
                                         img   |-> vImg,
                                         h     |-> vH,
                                         pause |-> vPause + 1])
          /\ frameNum' = frameNum + 1
          /\ vPause' = vPause + 1
          /\ UNCHANGED vPc
       \/ /\ vPc' = "failed"
          /\ UNCHANGED <<vFrames, frameNum, vPause>>
    /\ UNCHANGED <<schedVars, seqVars, newtonVars, renderVars, vConfig, vH,
                   vAllPoints, vImg>>

\* no pause at this height, or the pause loop ends: h++
VideoNextHeight ==
    /\ vPc = "pause"
    /\ ~(PauseAt(vH) /\ vPause < PauseFrames(vConfig.FrameRate))
    /\ vH' = vH + 1
    /\ vPc' = "loop"
    /\ UNCHANGED <<schedVars, seqVars, newtonVars, renderVars, vConfig,
                   vAllPoints, frameNum, vImg, vPause, vFrames>>

\* the h loop ends: return createVideoFromFrames(...)
VideoEncode ==
    /\ vPc = "loop"
    /\ vH > vConfig.MaxHeight
    /\ vPc' = "done"
    /\ UNCHANGED <<schedVars, seqVars, newtonVars, renderVars, vConfig, vH,
                   vAllPoints, frameNum, vImg, vPause, vFrames>>

VideoNext == VideoFrame \/ VideoPause \/ VideoNextHeight \/ VideoEncode

VideoSpec == VideoInit /\ [][VideoNext]_vars

(* ======================= properties of the enumerator ================== *)
\* coefficient j (0-based, as in the code) of an emitted PolyWork
Coeff(work, j) == work.coeffs[j + 1]

RECURSIVE AbsSum(_)
AbsSum(coeffs) ==
    IF coeffs = <<>> THEN 0 ELSE Abs(Head(coeffs)) + AbsSum(Tail(coeffs))

Emitted == 1..Len(emitted)

AllWorkersDone == \A w \in 1..numWorkers : wpc[w] = "done"

\* C1: no two emitted WorkItems have coefficient-for-coefficient identical
\* polynomials, within one height or across heights.
C1_NoDuplicatePolynomials ==
    \A m, n \in Emitted :
        m # n => emitted[m].work.coeffs # emitted[n].work.coeffs

\* The whole enumeration to EnumMaxHeight has been emitted; it holds several
\* polynomials of one height and polynomials of different heights.
C1_Witness ==
    /\ prod.pc = "done"
    /\ maxHeight = EnumMaxHeight
    /\ \E m, n \in Emitted : m # n /\ emitted[m].work.h = emitted[n].work.h
    /\ \E m, n \in Emitted : emitted[m].work.h # emitted[n].work.h

\* C2: every emitted WorkItem has a leading coefficient coefficient[degree]
\* that is >= 1 (never zero, never negated), and its leadingCoeff tag equals
\* that coefficient.
C2_LeadingCoefficientPositive ==
    \A n \in Emitted :
        LET w == emitted[n].work
        IN  /\ w.order + 1 \in DOMAIN w.coeffs
            /\ Coeff(w, w.order) >= 1
            /\ w.leadingCoeff = Coeff(w, w.order)

\* A polynomial with a leading coefficient above 1 and a negated lower
\* coefficient has been emitted.
C2_Witness ==
    \E n \in Emitted :
        LET w == emitted[n].work
        IN  /\ Coeff(w, w.order) >= 2
            /\ \E j \in 0..(w.order - 1) : Coeff(w, j) < 0

\* C3: every emitted WorkItem has degree >= 1 and exactly degree+1
\* coefficients.
C3_DegreeAtLeastOne ==
    \A n \in Emitted :
        LET w == emitted[n].work
        IN  w.order >= 1 /\ Len(w.coeffs) = w.order + 1

\* The producer has skipped at least one pattern with k = 0 (the all-ones
\* pattern of height 3) and has emitted polynomials of degree 1 and above.
C3_Witness ==
    /\ InvalidPolynomial(Decode(3, FirstPattern(3)).k)
    /\ \E n \in Emitted : emitted[n].work.order = 1
    /\ \E n \in Emitted : emitted[n].work.order >= 3

\* C4: for every WorkItem emitted with height tag h, the sum of the absolute
\* values of its coefficients equals h.
C4_HeightIsSumOfMagnitudes ==
    \A n \in Emitted :
        AbsSum(emitted[n].work.coeffs) = emitted[n].work.h

\* The degree-1 polynomials whose coefficient magnitudes sum to 2 with leading
\* magnitude >= 1: 1 + x, -1 + x and 2x.
Height2Polynomials ==
    {c \in [1..2 -> -2..2] : c[2] >= 1 /\ Abs(c[1]) + Abs(c[2]) = 2}

\* C5: for maxHeight = 2 the enumerator emits exactly the degree-1
\* polynomials whose magnitudes sum to 2 with leading magnitude >= 1.
C5_HeightTwoSet ==
    (maxHeight = 2 /\ prod.pc = "done") =>
        {emitted[n].work.coeffs : n \in Emitted} = Height2Polynomials

\* magnitude of coefficient j of an emitted PolyWork
Mag(work, j) == Abs(Coeff(work, j))

\* number of non-zero coefficients of an emitted PolyWork
NonZeroOf(work) == Cardinality({j \in 0..work.order : Coeff(work, j) # 0})

\* position of coefficient j among the non-zero coefficients, ascending
RankOf(work, j) == Cardinality({x \in 0..(j - 1) : Coeff(work, x) # 0})

\* the entries emitted for the same height and bit pattern as entry n
GroupOf(n) ==
    {m \in Emitted : /\ emitted[m].work.h = emitted[n].work.h
                     /\ emitted[m].i = emitted[n].i}

\* the producer has left the signs loop of entry n's pattern
GroupComplete(n) == prod.pc = "done" \/ Len(emitted) \notin GroupOf(n)

\* C6: for each decoded magnitude sequence with nonZero non-zero
\* coefficients exactly 2^(nonZero-1) WorkItems are emitted, one per sign
\* vector; bit k of the sign vector set means the k-th non-zero non-leading
\* coefficient (ascending) is negative; zero coefficients and the leading
\* coefficient are never negated.
C6_SignAssignments ==
    \A n \in Emitted :
        LET w  == emitted[n].work
            sv == emitted[n].signs
        IN  /\ Len(w.coeffs) = w.order + 1
            /\ sv \in 0..(2^(NonZeroOf(w) - 1) - 1)
            /\ \A j \in 0..w.order :
                   Coeff(w, j) < 0 <=>
                       /\ j < w.order
                       /\ Coeff(w, j) # 0
                       /\ Bit(sv, RankOf(w, j)) = 1
            /\ \A m \in GroupOf(n) :
                   /\ \A j \in 0..w.order : Mag(emitted[m].work, j) = Mag(w, j)
                   /\ m # n => emitted[m].signs # sv
            /\ GroupComplete(n) =>
                   Cardinality(GroupOf(n)) = 2^(NonZeroOf(w) - 1)

\* -1 - x + x^2 has been emitted with sign vector 3 (both non-zero non-leading
\* coefficients negative) in a complete group of 4, and 0 - x + x^2 with sign
\* vector 1 (the zero coefficient skipped: bit 0 is the coefficient of x).
C6_Witness ==
    /\ \E n \in Emitted :
           /\ emitted[n].work.coeffs = <<-1, -1, 1>>
           /\ emitted[n].signs = 3
           /\ GroupComplete(n)
           /\ Cardinality(GroupOf(n)) = 4
    /\ \E n \in Emitted :
           /\ emitted[n].work.coeffs = <<0, -1, 1>>
           /\ emitted[n].signs = 1

(* ======================= properties of the scheduler =================== *)
\* C7: under every interleaving each WorkItem the producer enqueued is
\* dequeued exactly once: the receives, in order, are exactly the sends that
\* are no longer in the queue (none lost, none received twice), and once
\* every worker has exited every send has been received.
C7_ConsumedExactlyOnce ==
    /\ Len(taken) + Len(workCh.buf) = Len(emitted)
    /\ \A n \in 1..Len(taken) :
           n \in Emitted /\ taken[n].work = emitted[n].work
    /\ \A n \in 1..Len(workCh.buf) :
           /\ Len(taken) + n \in Emitted
           /\ workCh.buf[n] = emitted[Len(taken) + n].work
    /\ (AllWorkersDone /\ pcMain # "spawn") => Len(taken) = Len(emitted)

\* Two workers have exited after receiving, between them, all five WorkItems
\* of heights 2..4.
C7_Witness ==
    /\ numWorkers = 2
    /\ pcMain # "spawn"
    /\ AllWorkersDone
    /\ Len(taken) = 5

\* The points a receive must contribute: one per root returned for it, with
\* the tags of the WorkItem as emitted.
ExpectedPoints(n) ==
    LET w == emitted[n].work
    IN  [s \in 1..Len(taken[n].roots) |->
            [Z            |-> taken[n].roots[s],
             H            |-> w.h,
             O            |-> Len(w.coeffs) - 1,
             LeadingCoeff |-> Abs(w.coeffs[Len(w.coeffs)])]]

\* how many times p occurs in the sequence q
Occurrences(p, q) == Cardinality({x \in 1..Len(q) : q[x] = p})

RECURSIVE ExpectedOccurrences(_, _)
ExpectedOccurrences(p, n) ==
    IF n = 0 THEN 0
    ELSE Occurrences(p, ExpectedPoints(n)) + ExpectedOccurrences(p, n - 1)

RECURSIVE ExpectedTotal(_)
ExpectedTotal(n) ==
    IF n = 0 THEN 0 ELSE Len(taken[n].roots) + ExpectedTotal(n - 1)

\* C8: when generate returns, for every emitted WorkItem every root the root
\* finder returned for it is in the result exactly once with that WorkItem's
\* height, degree and leading-coefficient magnitude, and the result holds
\* nothing else; no batch is left behind in the results queue or in a worker.
C8_ResultComplete ==
    pcMain = "returned" =>
        /\ Len(taken) = Len(emitted)
        /\ Len(resultCh.buf) = 0
        /\ \A w \in Workers : wbatch[w] = <<>>
        /\ Len(allPoints) = ExpectedTotal(Len(emitted))
        /\ \A x \in 1..Len(allPoints) :
               Occurrences(allPoints[x], allPoints)
                   = ExpectedOccurrences(allPoints[x], Len(emitted))

\* generate(4) has returned from two workers; the findRoots call for x^2 hit
\* the iteration cap and contributed an empty batch, so the result holds the
\* four roots of the degree-1 polynomials of heights 3 and 4.
C8_Witness ==
    /\ pcMain = "returned"
    /\ numWorkers = 2
    /\ maxHeight = 4
    /\ capBudget = 0
    /\ Len(allPoints) = 4

\* C9: the results queue is closed only after every worker has finished, no
\* worker sends on it after or while it is closed (which would panic), and
\* it is closed exactly once.
C9_CloseAfterWorkers ==
    /\ ~panicked
    /\ closes <= 1
    /\ (pcCoord = "close" \/ resultCh.closed) => AllWorkersDone
    /\ resultCh.closed <=> closes = 1
    /\ pcMain = "returned" => closes = 1

\* The coordinator has closed the results queue after two workers processed
\* five WorkItems, with batches still queued.
C9_Witness ==
    /\ resultCh.closed
    /\ numWorkers = 2
    /\ Len(taken) = 5
    /\ Len(resultCh.buf) > 0

\* generate has returned and nothing of it is left running.
Returned ==
    /\ pcMain = "returned"
    /\ prod.pc = "done"
    /\ workCh.closed
    /\ AllWorkersDone
    /\ pcCoord = "done"
    /\ resultCh.closed

\* C10: under fair scheduling generate eventually returns: the producer
\* finishes and closes the work queue, every worker exits, the coordinator
\* closes the results queue and the drain loop ends.
C10_EventuallyReturns == <>Returned

\* The run with the largest height and the most workers has returned.
C10_Witness ==
    /\ Returned
    /\ maxHeight = MaxHeight
    /\ numWorkers = MaxWorkers
    /\ Len(emitted) >= 5

\* The producer has the next WorkItem ready.
ProducerHasWork ==
    prod.pc = "run" /\ NextEmit(maxHeight, prod.h, prod.i, prod.signs).more

\* C11: the work queue never holds more than its capacity of WorkItems nor
\* the results queue more than its capacity of batches (1000 each in the
\* code, WorkCap and ResultCap here); while a queue is full its sender stays
\* where it is with its item, nothing is added, and the queue changes only
\* by a receive taking its head: nothing dropped, overwritten or grown.
C11_Backpressure ==
    /\ [](Len(workCh.buf) <= WorkCap /\ Len(resultCh.buf) <= ResultCap)
    /\ [][/\ Len(workCh.buf) = WorkCap =>
                /\ emitted' = emitted
                /\ ProducerHasWork => prod' = prod
                /\ workCh'.buf \in {workCh.buf, Tail(workCh.buf)}
          /\ Len(resultCh.buf) = ResultCap =>
                /\ \A w \in Workers :
                       wpc[w] = "send" =>
                           wpc'[w] = "send" /\ wbatch'[w] = wbatch[w]
                /\ resultCh'.buf \in {resultCh.buf, Tail(resultCh.buf)}]_vars

\* Both queues are full and the producer is waiting to send.
C11_Witness ==
    /\ Len(workCh.buf) = WorkCap
    /\ ProducerHasWork
    /\ Len(resultCh.buf) = ResultCap

\* C12: for a fixed maxHeight, with the root finder a function of the
\* polynomial, the points returned by the parallel path are, as a multiset,
\* the points returned by the sequential loop, in every interleaving.
C12_SameMultisetAsSequential ==
    seq.pc = "done" =>
        /\ Len(allPoints) = Len(seqPoints)
        /\ \A x \in 1..Len(seqPoints) :
               Occurrences(seqPoints[x], allPoints)
                   = Occurrences(seqPoints[x], seqPoints)

\* Both programs have returned for maxHeight 4; two workers delivered the
\* points in another order than the sequential loop.
C12_Witness ==
    /\ seq.pc = "done"
    /\ numWorkers = 2
    /\ maxHeight = 4
    /\ Len(seqPoints) >= 4
    /\ allPoints # seqPoints

\* C13: each worker creates and uses only its own random source: no source
\* is held or drawn from by two workers, no worker holds or draws from the
\* process-wide source, and every draw of a worker's root-finder call is
\* from the source that worker passed to it.
C13_OwnRandomSource ==
    /\ \A w \in Workers : localRand[w] # GlobalSource
    /\ \A w1, w2 \in Workers :
           (w1 # w2 /\ localRand[w1] # NoSource) =>
               localRand[w1] # localRand[w2]
    /\ \A d \in rngDraws : d[1] # GlobalSource /\ d[1] = localRand[d[2]]
    /\ \A d1, d2 \in rngDraws : d1[1] = d2[1] => d1[2] = d2[2]

\* Two workers hold a source each and a Newton search has drawn from one.
C13_Witness ==
    /\ \A w \in 1..2 : localRand[w] # NoSource
    /\ rngDraws # {}

(* ======================= properties of the root finder ================== *)
Frames == 1..Len(stack)

\* C14: a call on a polynomial of degree d >= 1 returns at most d roots,
\* whatever each iteration's outcome; so does every recursive call for its
\* own degree, at every moment.
C14_AtMostDegreeRoots ==
    /\ \A k \in Frames : Len(stack[k].roots) <= stack[k].order
    /\ nPc = "done" => Len(nResult) <= Len(nInput) - 1

\* A cubic for which both Newton stages converged: three roots returned.
C14_Witness ==
    /\ nPc = "done"
    /\ Len(nInput) = 4
    /\ Len(nResult) = 3

\* C15: a Newton stage runs at most 5000 iterations, degenerate-derivative
\* restarts included; a stage that reaches the cap has recorded no root,
\* does not recurse and returns; the stages of a call have degrees
\* degree, degree-1, ..., 2, one each at most, and every call returns.
C15_IterationCap ==
    /\ [](\A k \in Frames :
            /\ stack[k].iter \in 0..5000
            /\ stack[k].order = Len(nInput) - k
            /\ stack[k].order >= 1
            /\ stack[k].last = "capped" =>
                   /\ stack[k].roots = <<>>
                   /\ k = Len(stack)
                   /\ stack[k].pc \in {"after", "return", "returned"})
    /\ <>(nPc = "done")

\* A quadratic whose only stage ran into the cap: the call returned no root.
C15_Witness ==
    /\ nPc = "done"
    /\ Len(nInput) = 3
    /\ stack[1].last = "capped"
    /\ nResult = <<>>

\* C16: when the iteration with index 500, 1000, ..., 4500 has ended without
\* convergence the next iteration starts from a freshly drawn point, and an
\* ordinary step at iteration 0 leaves the Newton iterate in place.
C16_PeriodicRestart ==
    \A k \in Frames :
        (stack[k].pc = "loop" /\ stack[k].last \in {"degenerate", "step"}) =>
            LET j == stack[k].iter - 1
            IN  /\ j \in {500 * m : m \in 1..9} => stack[k].root = "random"
                /\ (j = 0 /\ stack[k].last = "step") =>
                       stack[k].root = "iterate"

\* Iteration 500 took an ordinary step and the point was drawn afresh.
C16_Witness ==
    /\ Len(stack) = 1
    /\ stack[1].pc = "loop"
    /\ stack[1].iter = 501
    /\ stack[1].last = "step"
    /\ stack[1].root = "random"

\* roots is what the base case must return for the coefficients c
IsBaseCaseResult(roots, c) ==
    IF c[2] # 0
    THEN /\ Len(roots) = 1
         /\ roots[1].den # 0
         /\ roots[1].num * c[2] = (-c[1]) * roots[1].den
    ELSE roots = <<>>

\* C17: for degree 1 the call returns exactly the root
\* -coefficients[0]/coefficients[1] when coefficients[1] is not 0 and an
\* empty result when it is 0; it runs no iteration and draws no random
\* number.
C17_LinearBaseCase ==
    /\ \A d \in nDraws : d[2] # 1
    /\ \A k \in Frames :
           stack[k].order = 1 =>
               /\ stack[k].iter = 0
               /\ stack[k].last = "none"
               /\ stack[k].root = "none"
               /\ stack[k].pc \in {"return", "returned"} =>
                      IsBaseCaseResult(stack[k].roots, heap[stack[k].coeffs])
    /\ (nPc = "done" /\ Len(nInput) = 2) =>
           IsBaseCaseResult(nResult, nInput)

\* 2x + 1 returned the single root -1/2.
C17_Witness ==
    /\ nPc = "done"
    /\ nInput = <<1, 2>>
    /\ nResult = <<[num |-> -1, den |-> 2, of |-> <<>>]>>

\* C18: no call writes to the coefficients it was given: at every recursion
\* level the slice still holds what the call received, each deflation made
\* a new slice of length degree at an address no enclosing call uses, and
\* the outermost caller's coefficients are unchanged after the call.
C18_CoefficientsNotWritten ==
    /\ \A k \in Frames : heap[stack[k].coeffs] = stack[k].given
    /\ \A k \in Frames :
           k > 1 =>
               /\ \A j \in 1..(k - 1) : stack[j].coeffs # stack[k].coeffs
               /\ Len(heap[stack[k].coeffs]) = stack[k - 1].order
    /\ nPc # "idle" => heap[1] = nInput

\* A cubic was deflated twice and the call has returned.
C18_Witness ==
    /\ nPc = "done"
    /\ Len(nInput) = 4
    /\ Len(heap) = 3
    /\ heap[1] = nInput

(* ======================= properties of the renderer ===================== *)
Channels == {"R", "G", "B"}

\* C19: for any points and any two orderings of them the two renderings
\* are pixel-identical, saturated channels and truncated contributions
\* included.
C19_OrderIndependent ==
    rPc = "done" => img = rFirst

\* floor(colour * intensity) for the blob of point p at pixel px
FloorContribution(p, px, ch) ==
    LET dx == px[1] - ScreenX(p)
        dy == px[2] - ScreenY(p)
    IN  Product(Color(p.LeadingCoeff)[ch], Radius(p.H), dx * dx + dy * dy).whole

\* C20: drawing a blob sets each affected channel to
\* min(255, existing + floor(colour * intensity)); every channel stays in
\* 0..255 and never decreases, and no addition wraps around modulo 256.
C20_AdditiveSaturating ==
    [][(rPc \in {"first", "second"} /\ rIdx <= Len(Current) /\ rIdx' = rIdx + 1
        /\ ~OutsideViewport(Current[rIdx])) =>
          \A px \in Pixels : \A ch \in Channels :
              /\ img'[px][ch] \in 0..255
              /\ img'[px][ch] >= img[px][ch]
              /\ Affected(px, ScreenX(Current[rIdx]), ScreenY(Current[rIdx]),
                          Radius(Current[rIdx].H)) =>
                     LET sum == img[px][ch]
                                  + FloorContribution(Current[rIdx], px, ch)
                     IN  img'[px][ch] = IF sum > 255 THEN 255 ELSE sum]_vars

\* C21: a point is rasterized exactly when its coordinates lie in the
\* viewport rectangle, both boundaries included (a point on XMax or on YMax
\* is drawn); a point outside is skipped and leaves every pixel unchanged.
C21_ViewportInclusive ==
    [][(rPc \in {"first", "second"} /\ rIdx <= Len(Current)
        /\ rIdx' = rIdx + 1) =>
          LET p == Current[rIdx]
          IN  IF 0 <= p.cx /\ p.cx <= ImgW /\ 0 <= p.cy /\ p.cy <= ImgH
              THEN Len(rDrawn') = Len(rDrawn) + 1
              ELSE rDrawn' = rDrawn /\ img' = img]_vars

\* A point on XMax and YMax was drawn and a point beyond XMax was skipped.
C21_Witness ==
    /\ rPc = "first"
    /\ rIdx = 3
    /\ rPoints[1].cx = ImgW /\ rPoints[1].cy = ImgH
    /\ rPoints[2].cx = ImgW + 1
    /\ Len(rDrawn) = 1
    /\ img # Black

\* red, green, blue, yellow, magenta, cyan, orange, lime, hot pink, purple
Palette ==
    <<<<255, 0, 0>>, <<0, 255, 0>>, <<0, 0, 255>>, <<255, 255, 0>>,
      <<255, 0, 255>>, <<0, 255, 255>>, <<255, 128, 0>>, <<128, 255, 0>>,
      <<255, 0, 128>>, <<128, 0, 255>>>>

\* the colour the claim gives a leading-coefficient magnitude
PaletteColor(lc) ==
    LET t == IF lc <= 10 THEN Palette[lc] ELSE <<255, 255, 255>>
    IN  [R |-> t[1], G |-> t[2], B |-> t[3]]

RGB(c) == [R |-> c.R, G |-> c.G, B |-> c.B]

C23_CountersMatch ==
    pcMain = "returned" =>
        /\ stats.eqns = Len(emitted)
        /\ stats.eqns = Len(taken)
        /\ stats.roots = Len(allPoints)

\* Returned for maxHeight 4 with all five polynomials counted, one of which
\* gave no root.
C23_Witness ==
    /\ pcMain = "returned"
    /\ maxHeight = 4
    /\ stats.eqns = 5
    /\ \E n \in 1..Len(taken) : taken[n].roots = <<>>

(* ===================== the height tag of the code ======================= *)
\* the integer sequences of the given length whose magnitudes sum to total
RECURSIVE SeqsWithAbsSum(_, _)
SeqsWithAbsSum(len, total) ==
    IF len = 0 THEN (IF total = 0 THEN {<<>>} ELSE {})
    ELSE UNION {{<<a>> \o t : t \in SeqsWithAbsSum(len - 1, total - Abs(a))} :
                    a \in (-total)..total}

\* the polynomials of degree >= 1 with positive leading coefficient and
\* (sum of absolute coefficients) + degree = h - 1
PolynomialsOfTag(h) ==
    UNION {{c \in SeqsWithAbsSum(d + 1, h - 1 - d) : c[d + 1] >= 1} :
               d \in 1..(h - 2)}

\* how many emitted PolyWork items carry the coefficients c and the tag h
TimesEmitted(c, h) ==
    Cardinality({n \in Emitted : emitted[n].work.coeffs = c
                                  /\ emitted[n].work.h = h})

C25_RootCountByFirstFailure ==
    LET d == Len(nInput) - 1
    IN  (nPc # "idle" /\ nInput[d + 1] # 0) =>
            /\ \A k \in Frames :
                   heap[stack[k].coeffs][stack[k].order + 1] = nInput[d + 1]
            /\ Cardinality(nCapped) <= 1
            /\ \A c \in nCapped :
                   /\ 2 <= c /\ c <= d
                   /\ \A k \in Frames : stack[k].order >= c
                   /\ Len(heap) = d - c + 1
                   /\ nPc = "done" => Len(nResult) = d - c
            /\ (nPc = "done" /\ nCapped = {}) =>
                   Len(nResult) = d /\ Len(heap) = d

\* A cubic whose first stage converged and whose second stage (degree 2) ran
\* out of iterations: one root returned.
C25_Witness ==
    /\ nPc = "done"
    /\ Len(nInput) = 4
    /\ nCapped = {2}
    /\ Len(nResult) = 1

\* C26: when generate returns, the concurrent region is quiescent: the
\* producer has finished and closed the work queue, every worker goroutine
\* has been started and has exited, the WaitGroup counter is back at zero,
\* the coordinator has closed the results queue and finished, both queues
\* are empty and no worker holds an unsent batch.
C26_QuiescentAtReturn ==
    pcMain = "returned" =>
        /\ prod.pc = "done"
        /\ workCh.closed
        /\ Len(workCh.buf) = 0
        /\ spawned = numWorkers
        /\ \A w \in 1..numWorkers : wpc[w] = "done" /\ wbatch[w] = <<>>
        /\ wg = 0
        /\ pcCoord = "done"
        /\ resultCh.closed
        /\ Len(resultCh.buf) = 0
        /\ ~panicked

\* generate(4) has returned with all six roots; both of its workers ran and
\* its five WorkItems were processed.
C26_Witness ==
    /\ pcMain = "returned"
    /\ maxHeight = MaxHeight
    /\ numWorkers = MaxWorkers
    /\ Len(taken) = 5
    /\ \A w \in 1..numWorkers : localRand[w] # NoSource
    /\ Len(allPoints) = 6

(* ========================= properties of the video ====================== *)
\* what generate returns for each height of a video run
GeneratedFor == [h \in 2..VideoMaxHeight |-> GenerateAlgebraicNumbers(h)]

\* the number a frame file name carries
RECURSIVE FileNumber(_)
FileNumber(file) ==
    IF file = <<>> THEN 0
    ELSE 10 * FileNumber(SubSeq(file, 1, Len(file) - 1)) + file[Len(file)]

Saved == 1..Len(vFrames)

\* the primary frames, and the extra copies saved for height h
Primary == {k \in Saved : vFrames[k].pause = 0}
CopiesOf(h) == {k \in Saved : vFrames[k].h = h /\ vFrames[k].pause > 0}

\* the heights whose pass of the h loop is over
Passed(h) == vH > h \/ vPc = "done"

\* C27: the primary frames come in ascending height order 2, 3, ...,
\* MaxHeight; the frame for height h is rendered from what generate(h)
\* returned, which holds points of every height 3..h and not only of h; the
\* frame files are numbered consecutively from 0 and no file is written
\* twice; after the primary frame of a height h with h <= 5 or h divisible by
\* 5 come FrameRate/2 copies of that frame, and none after the others.
C27_VideoFrames ==
    /\ \A k \in Saved : FileNumber(vFrames[k].file) = k - 1
    /\ \A k, m \in Saved : k # m => vFrames[k].file # vFrames[m].file
    /\ \A k \in Saved : Len(vFrames[k].file) >= 4
    /\ \A k \in Primary :
           LET f == vFrames[k]
           IN  /\ f.h = 1 + Cardinality({m \in Primary : m <= k})
               /\ f.h <= vConfig.MaxHeight
               /\ f.img = [points |-> GeneratedFor[f.h], text |-> f.h]
               /\ DOMAIN f.img.points = 2..f.h
               /\ \A t \in 3..f.h : f.img.points[t] > 0
               /\ Cardinality(CopiesOf(f.h)) <=
                      (IF f.h <= 5 \/ f.h % 5 = 0
                       THEN vConfig.FrameRate \div 2 ELSE 0)
               /\ Passed(f.h) =>
                      Cardinality(CopiesOf(f.h)) =
                          (IF f.h <= 5 \/ f.h % 5 = 0
                           THEN vConfig.FrameRate \div 2 ELSE 0)
    /\ \A k \in Saved \ Primary :
           LET f == vFrames[k]
               p == k - f.pause
           IN  /\ p \in Primary
               /\ vFrames[p].h = f.h
               /\ vFrames[p].img = f.img
    /\ vPc = "done" => Cardinality(Primary) = vConfig.MaxHeight - 1

\* A video to height 10 at 5 frames per second is complete: nine primary
\* frames and two copies each for the heights 2, 3, 4, 5 and 10; the frame
\* for height 10 shows the one polynomial of height 3 among the others.
C27_Witness ==
    /\ vPc = "done"
    /\ vConfig = [MaxHeight |-> 10, FrameRate |-> 5]
    /\ Len(vFrames) = 19
    /\ vFrames[19].h = 10
    /\ vFrames[19].pause = 2
    /\ vFrames[19].img.points[3] = 1
    /\ vFrames[19].img.points[10] > 1

====
